---- MODULE Spec2Model ----
(***************************************************************************)
(* Model of the investrends collector (package collector):                 *)
(*   - the two orchestrators Run and RunGoRoutines with the checkpoint     *)
(*     file, the blacklist table and the crypto_prices table (Spec);       *)
(*   - the pure functions GetRawValuesFromResponse (SpecClassify) and      *)
(*     ExtractDataFromValues (SpecExtract);                                *)
(*   - StoreData on the crypto_prices table (SpecStore).                   *)
(***************************************************************************)
EXTENDS Integers, Sequences, FiniteSets, TLC

(***************************************************************************)
(* Bounds of the model.                                                    *)
(***************************************************************************)
\* number of data rows of the currency list (row 0 is the header)
NumSymbols == 3
\* largest batch size n handed to Run / RunGoRoutines
MaxN == 2
\* number of process starts explored (first start plus restarts)
MaxRuns == 2

(***************************************************************************)
(* The currency list: records[0] is the header row, records[r][0] is the   *)
(* symbol of row r.  Symbols are identified with their row number.         *)
(***************************************************************************)
Symbols == 1..NumSymbols

records == [r \in 0..NumSymbols |-> r]

LenRecords == NumSymbols + 1

(***************************************************************************)
(* Checkpoint file: strconv.Itoa / strconv.Atoi on decimal digit strings.  *)
(***************************************************************************)
Digits == <<"0", "1", "2", "3", "4", "5", "6", "7", "8", "9">>

RECURSIVE Itoa(_)
Itoa(k) ==
  IF k < 10 THEN <<Digits[k + 1]>>
  ELSE Itoa(k \div 10) \o <<Digits[(k % 10) + 1]>>

DigitVal(c) == (CHOOSE d \in 1..10 : Digits[d] = c) - 1

IsDigit(c) == \E d \in 1..10 : Digits[d] = c

RECURSIVE AtoiVal(_)
AtoiVal(s) ==
  IF s = <<>> THEN 0
  ELSE AtoiVal(SubSeq(s, 1, Len(s) - 1)) * 10 + DigitVal(s[Len(s)])

\* strconv.Atoi: an error for the empty string or any non-digit
Atoi(s) ==
  IF s # <<>> /\ \A k \in 1..Len(s) : IsDigit(s[k])
  THEN [ok |-> TRUE, val |-> AtoiVal(s)]
  ELSE [ok |-> FALSE, val |-> 0]

NoFile == [exists |-> FALSE, data |-> <<>>]

\* readIndexFromFile: os.Open fails when the file is absent
readIndexFromFile(file) ==
  IF ~file.exists THEN [ok |-> FALSE, val |-> 0] ELSE Atoi(file.data)

\* a start that takes the list as done when the read fails
StartIndex_Last(file) ==
  IF readIndexFromFile(file).ok THEN readIndexFromFile(file).val ELSE NumSymbols

\* the index Run / RunGoRoutines start from: 0 when the read fails
StartIndex(file) ==
  IF readIndexFromFile(file).ok THEN readIndexFromFile(file).val ELSE 0

(***************************************************************************)
(* What a fetch of one symbol can come back with, and what the pipeline    *)
(* (GetRawValuesFromResponse, then the extract function) makes of it.      *)
(*   conn    the fetch returns an error (ConnectionError)                  *)
(*   missing status missingSymbol                                          *)
(*   limit   status limitReached                                           *)
(*   broken  status jsonBroken                                             *)
(*   ok      allGood, the weeks are extracted without error                *)
(*   exerr   allGood, extraction returns an error after some points        *)
(*   sterr   allGood, extraction without error, StoreData returns an error *)
(***************************************************************************)
Outcomes == {"conn", "missing", "limit", "broken", "ok", "exerr", "sterr"}

\* the outcomes a run keeps a record of
Noted(o) == IF o \in {"conn", "sterr", "limit", "broken"} THEN {o} ELSE {}

\* the weekly dates of a fetched series the orchestrators can store
Weeks == {1}

\* the curated points handed back by the extract function: on an error
\* ExtractDataFromValues returns the points collected before the failure
CuratedOf(o) ==
  CASE o = "ok" -> Weeks
    [] o = "exerr" -> {1}
    [] OTHER -> {}

VARIABLES
  indexFile,   \* the checkpoint file: [exists, data]
  blacklist,   \* rows of table blacklist (set of symbols)
  prices,      \* rows of table crypto_prices: set of <<symbol, week>>
  mode,        \* "idle", "Run" or "RunGo": the function the process runs
  pc,          \* position of the orchestrator's control flow
  n,           \* parameter n (the command passes the same n at every start)
  clear,       \* parameter clear
  sleep,       \* parameter sleep (RunGoRoutines)
  production,  \* Collector.production (the deployment's -prod flag)
  i,           \* loop variable i
  processed,   \* local variable processed
  filtered,    \* RunGoRoutines: the filtered symbol slice
  goroutines,  \* RunGoRoutines: the slice of the current batch
  wstate,      \* per symbol: "none", "spawned", "blacklisting" or "done"
  returnCh,    \* buffered channel of returnData
  chClosed,    \* returnCh has been closed
  ret,         \* how the call ended: "none", "ok" (nil after the reset),
               \* "limit" (nil at the limit), "conn" (transport error),
               \* "werr" / "rerr" (error of the checkpoint write in the
               \* loop / of the final reset), "panic"
  runs,        \* number of process starts so far
  fetched,     \* symbols a fetch was issued for in this run
  blAtStart,   \* the blacklist as the run found it (after clearing)
  sleeps,      \* pacing sleeps (time.Sleep(time.Minute)) in this run
  sinceSleep,  \* fetches issued since the last pacing sleep of this run
  lastWritten, \* last checkpoint this run wrote completely, -1 if none
  startIdx,    \* the index this run read at its start
  prevKill,    \* how the previous process was killed, if it was
  seen,        \* what this run has met: "conn" (a fetch returned an error),
               \* "sterr" (StoreData returned an error), "limit" and
               \* "broken" (a response classified as limitReached, as
               \* jsonBroken)
  missed,      \* symbols whose response classified as missingSymbol in
               \* this run
  failed,      \* symbols whose extraction returned an error in this run
  input,       \* the argument of the function under examination
  output,      \* what the function returned
  table        \* StoreData: rows and transaction of the store it writes

persistent == <<indexFile, blacklist, prices>>
params == <<n, clear, sleep, production>>
workers == <<goroutines, wstate, returnCh, chClosed>>
pacing == <<sleeps, sinceSleep>>
orch == <<indexFile, blacklist, prices, mode, pc, n, clear, sleep,
          production, i, processed, filtered, goroutines, wstate, returnCh,
          chClosed, ret, runs, fetched, blAtStart, sleeps, sinceSleep,
          lastWritten, startIdx, prevKill, seen, missed,
          failed>>
\* the variables of the specifications of the single functions
pure == <<input, output, table>>
vars == <<orch, pure>>

NoKill == [m |-> "none", N |-> -1, owed |-> {}, fetched |-> {}]

NoWorkers == [s \in Symbols |-> "none"]

Init ==
  /\ indexFile = NoFile
  /\ blacklist = {}
  /\ prices = {}
  /\ mode = "idle"
  /\ pc = "idle"
  /\ n \in 1..MaxN
  /\ clear = FALSE
  /\ sleep = FALSE
  /\ production \in BOOLEAN
  /\ i = 0
  /\ processed = 0
  /\ filtered = <<>>
  /\ goroutines = <<>>
  /\ wstate = NoWorkers
  /\ returnCh = <<>>
  /\ chClosed = FALSE
  /\ ret = "none"
  /\ runs = 0
  /\ fetched = {}
  /\ blAtStart = {}
  /\ sleeps = 0
  /\ sinceSleep = 0
  /\ lastWritten = -1
  /\ startIdx = 0
  /\ prevKill = NoKill
  /\ seen = {} /\ missed = {} /\ failed = {}
  /\ input = <<>> /\ output = <<>> /\ table = <<>>

(***************************************************************************)
(* Store operations used by the orchestrators.                             *)
(***************************************************************************)
\* a membership check that never finds the symbol
IsBlacklisted_NeverFound(bl, symbol) == FALSE

\* IsBlacklisted: SELECT COUNT(*) ... WHERE symbol = ? , count > 0
IsBlacklisted(bl, symbol) == Cardinality({b \in bl : b = symbol}) > 0

\* AddToBlacklist: INSERT OR REPLACE INTO blacklist(symbol)
AddToBlacklist(bl, symbol) == bl \cup {symbol}

\* db.Exec("DELETE FROM blacklist") when clear is set
ClearBlacklist(bl, c) == IF c THEN {} ELSE bl

\* StoreData on crypto_prices: INSERT OR IGNORE under UNIQUE(symbol,timestamp)
StorePoints(tbl, symbol, pts) == tbl \cup {<<symbol, w>> : w \in pts}

\* the database handle is open from setUpDb until the deferred db.Close()
DbOpen == mode # "idle" /\ pc # "returned"

(***************************************************************************)
(* Start of a process: Run(c, n, clear).                                   *)
(***************************************************************************)
StartCommon(m, cl) ==
  /\ mode = "idle"
  /\ runs < MaxRuns
  /\ runs' = runs + 1
  /\ mode' = m
  /\ clear' = cl
  /\ blacklist' = ClearBlacklist(blacklist, cl)
  /\ blAtStart' = blacklist'
  /\ processed' = 0
  /\ ret' = "none"
  /\ fetched' = {}
  /\ sleeps' = 0
  /\ sinceSleep' = 0
  /\ lastWritten' = -1
  /\ seen' = {} /\ missed' = {} /\ failed' = {}
  /\ UNCHANGED <<indexFile, prices, n, production, workers, prevKill, pure>>

\* the loop header "i < len": position of the next step
RunNext(k) == IF k < LenRecords THEN "w1" ELSE "r1"

Run_Start(cl) ==
  /\ StartCommon("Run", cl)
  /\ sleep' = FALSE
  /\ filtered' = <<>>
  /\ i' = StartIndex(indexFile)
  /\ startIdx' = i'
  /\ pc' = RunNext(i')


Run_Skip ==
  /\ mode = "Run" /\ pc = "body"
  /\ i = 0 \/ IsBlacklisted(blacklist, records[i])
  /\ i' = i + 1
  /\ pc' = RunNext(i')
  /\ UNCHANGED <<persistent, mode, params, processed, filtered, workers, ret,
                 runs, fetched, blAtStart, pacing, lastWritten, startIdx,
                 prevKill, seen, missed, failed, pure>>

\* a count that is never advanced
Counted_Dropped(p, k) == p

\* "processed++", once for each of the k symbols handed to the fetch
Counted(p, k) == p + k

\* "if processed > 0 && processed%n == 0 { time.Sleep(time.Minute) }"
RunPaces(p, nn) == p > 0 /\ p % nn = 0

\* a Run that logs a transport error and goes on with the next row
RunEnds_LogsTransport(o, prod) ==
  CASE o = "limit" /\ ~prod -> "limit"
    [] o = "broken" -> "panic"
    [] OTHER -> "continue"

\* a Run that at the limit always waits and goes on, as in production
RunEnds_SleepsAtLimit(o, prod) ==
  CASE o = "conn" -> "conn"
    [] o = "broken" -> "panic"
    [] OTHER -> "continue"

\* how the loop body of Run ends for a fetched row: "return processed, err"
\* on a transport error, "return processed, nil" at the limit outside
\* production, err.Error() on the nil err for jsonBroken, else "continue"
RunEnds(o, prod) ==
  CASE o = "conn" -> "conn"
    [] o = "limit" /\ ~prod -> "limit"
    [] o = "broken" -> "panic"
    [] OTHER -> "continue"

\* one pass through the loop body of Run for a row that is fetched
Run_Process(o) ==
  /\ mode = "Run" /\ pc = "body"
  /\ i # 0 /\ ~IsBlacklisted(blacklist, records[i])
  /\ sleeps' = IF RunPaces(processed, n) THEN sleeps + 1 ELSE sleeps
  /\ sinceSleep' = IF RunPaces(processed, n) THEN 1 ELSE sinceSleep + 1
  /\ processed' = Counted(processed, 1)
  /\ fetched' = fetched \cup {records[i]}
  /\ blacklist' = IF o = "missing" THEN AddToBlacklist(blacklist, records[i])
                  ELSE blacklist
  /\ prices' = IF o = "ok"
               THEN StorePoints(prices, records[i], CuratedOf(o))
               ELSE prices
  /\ seen' = seen \cup Noted(o)
  /\ missed' = IF o = "missing" THEN missed \cup {records[i]} ELSE missed
  /\ failed' = IF o = "exerr" THEN failed \cup {records[i]} ELSE failed
  /\ IF RunEnds(o, production) = "continue"
     THEN /\ i' = i + 1 /\ pc' = RunNext(i') /\ ret' = ret
     ELSE /\ pc' = "returned" /\ ret' = RunEnds(o, production) /\ i' = i
  /\ UNCHANGED <<indexFile, mode, params, filtered, workers, runs, blAtStart,
                 lastWritten, startIdx, prevKill, pure>>

(***************************************************************************)
(* writeIndexToFile: os.Create truncates the file, WriteString fills it.   *)
(* pc "w1"/"w2" is the write of i inside the loop, "r1"/"r2" the final     *)
(* write of 0.                                                             *)
(***************************************************************************)
\* "return processed, err" after writeIndexToFile failed
WriteError(at) == IF at \in {"w1", "w2"} THEN "werr" ELSE "rerr"

Index_Create ==
  /\ mode # "idle" /\ pc \in {"w1", "r1"}
  /\ indexFile' = [exists |-> TRUE, data |-> <<>>]
  /\ pc' = IF pc = "w1" THEN "w2" ELSE "r2"
  /\ UNCHANGED <<blacklist, prices, mode, params, i, processed, filtered,
                 workers, ret, runs, fetched, blAtStart, pacing, lastWritten,
                 startIdx, prevKill, seen, missed, failed, pure>>

Index_CreateFail ==
  /\ mode # "idle" /\ pc \in {"w1", "r1"}
  /\ pc' = "returned" /\ ret' = WriteError(pc)
  /\ UNCHANGED <<persistent, mode, params, i, processed, filtered, workers,
                 runs, fetched, blAtStart, pacing, lastWritten, startIdx,
                 prevKill, seen, missed, failed, pure>>

\* a write that stores the index of the unit of work before
IndexToWrite_Stale(k) == IF k > 0 THEN k - 1 ELSE 0

\* a write that starts again from 0 in the middle of the list
IndexToWrite_Wrap(k) == IF k = 2 THEN 0 ELSE k

\* the value a checkpoint write stores
IndexToWrite(k) == k

Index_WriteString ==
  /\ mode # "idle" /\ pc \in {"w2", "r2"}
  /\ LET v == IF pc = "w2" THEN IndexToWrite(i) ELSE 0 IN
       /\ indexFile' = [exists |-> TRUE, data |-> Itoa(v)]
       /\ lastWritten' = v
  /\ pc' = IF pc = "w2" THEN "body" ELSE "returned"
  /\ ret' = IF pc = "w2" THEN ret ELSE "ok"
  /\ UNCHANGED <<blacklist, prices, mode, params, i, processed, filtered,
                 workers, runs, fetched, blAtStart, pacing, startIdx,
                 prevKill, seen, missed, failed, pure>>

\* a failed write that is recorded while the loop goes on with its body
Index_WriteFail_GoesOn ==
  /\ mode # "idle" /\ pc \in {"w2", "r2"}
  /\ pc' = IF pc = "w2" THEN "body" ELSE "returned"
  /\ ret' = WriteError(pc)
  /\ UNCHANGED <<persistent, mode, params, i, processed, filtered, workers,
                 runs, fetched, blAtStart, pacing, lastWritten, startIdx,
                 prevKill, seen, missed, failed, pure>>

\* file.WriteString returns an error: "return processed, err"
Index_WriteFail ==
  /\ mode # "idle" /\ pc \in {"w2", "r2"}
  /\ pc' = "returned" /\ ret' = WriteError(pc)
  /\ UNCHANGED <<persistent, mode, params, i, processed, filtered, workers,
                 runs, fetched, blAtStart, pacing, lastWritten, startIdx,
                 prevKill, seen, missed, failed, pure>>

(***************************************************************************)
(* RunGoRoutines(c, n, clear, sleep).                                      *)
(***************************************************************************)
\* "Filter the records list with only the useful ones": rows 1.. in order
RECURSIVE FilterFrom(_, _)
FilterFrom(r, bl) ==
  IF r >= LenRecords THEN <<>>
  ELSE IF ~IsBlacklisted(bl, records[r]) THEN <<records[r]>> \o FilterFrom(r + 1, bl)
  ELSE FilterFrom(r + 1, bl)

\* a filter that appends the rows it keeps a second time
Filtered_Twice(bl) == FilterFrom(1, bl) \o FilterFrom(1, bl)

Filtered(bl) == FilterFrom(1, bl)

GoNext(k, f) == IF k < Len(f) THEN "w1" ELSE "r1"

Go_Start(cl, sl) ==
  /\ StartCommon("RunGo", cl)
  /\ sleep' = sl
  /\ filtered' = Filtered(blacklist')
  /\ i' = StartIndex(indexFile)
  /\ startIdx' = i'
  /\ pc' = GoNext(i', filtered')

\* a batch that takes one symbol more than n
BatchEnd_OneMore(k, nn, f) ==
  IF k + nn + 1 <= Len(f) THEN k + nn + 1 ELSE Len(f)

\* a batch that takes all that is left of the list
BatchEnd_WholeList(k, nn, f) == Len(f)

\* "end": the batch is filtered[i:end]
BatchEnd(k, nn, f) == IF k + nn <= Len(f) THEN k + nn ELSE Len(f)

Range(sq) == {sq[k] : k \in 1..Len(sq)}

Go_Spawn ==
  /\ mode = "RunGo" /\ pc = "body"
  /\ goroutines' = SubSeq(filtered, i + 1, BatchEnd(i, n, filtered))
  /\ processed' = Counted(processed, Len(goroutines'))
  /\ wstate' = [s \in Symbols |->
                  IF s \in Range(goroutines') THEN "spawned" ELSE "none"]
  /\ returnCh' = <<>>
  /\ chClosed' = FALSE
  /\ pc' = "collect"
  /\ UNCHANGED <<persistent, mode, params, i, filtered, ret, runs, fetched,
                 blAtStart, pacing, lastWritten, startIdx, prevKill, seen, missed, failed, pure>>

returnData(s, data, err, lim) ==
  [symbol |-> s, curatedData |-> data, err |-> err, limitReached |-> lim]

\* a worker that sends each of its results twice
WorkerSends_Twice(s, o, prod) ==
  CASE o = "conn" -> <<returnData(s, {}, TRUE, FALSE), returnData(s, {}, TRUE, FALSE)>>
    [] o = "limit" /\ ~prod ->
         <<returnData(s, {}, FALSE, TRUE), returnData(s, {}, FALSE, TRUE)>>
    [] o = "ok" ->
         <<returnData(s, CuratedOf(o), FALSE, FALSE),
           returnData(s, CuratedOf(o), FALSE, FALSE)>>
    [] o = "exerr" ->
         <<returnData(s, CuratedOf(o), TRUE, FALSE),
           returnData(s, CuratedOf(o), TRUE, FALSE)>>
    [] OTHER -> <<>>

\* what a worker goroutine sends on returnCh, if anything
WorkerSends(s, o, prod) ==
  CASE o = "conn" -> <<returnData(s, {}, TRUE, FALSE)>>
    [] o = "limit" /\ ~prod -> <<returnData(s, {}, FALSE, TRUE)>>
    [] o = "ok" -> <<returnData(s, CuratedOf(o), FALSE, FALSE)>>
    [] o = "exerr" -> <<returnData(s, CuratedOf(o), TRUE, FALSE)>>
    [] OTHER -> <<>>

\* the goroutine of one symbol: fetch, classify, extract, send; for
\* missingSymbol the blacklisting is the step Go_Blacklist
Go_Worker(s, o) ==
  /\ mode = "RunGo" /\ wstate[s] = "spawned"
  /\ o \notin {"broken", "sterr"}
  /\ seen' = seen \cup Noted(o)
  /\ fetched' = fetched \cup {s}
  /\ sinceSleep' = sinceSleep + 1
  /\ missed' = IF o = "missing" THEN missed \cup {s} ELSE missed
  /\ failed' = IF o = "exerr" THEN failed \cup {s} ELSE failed
  /\ returnCh' = returnCh \o WorkerSends(s, o, production)
  /\ wstate' = [wstate EXCEPT ![s] = IF o = "missing" THEN "blacklisting"
                                     ELSE "done"]
  /\ UNCHANGED <<persistent, mode, pc, params, i, processed, filtered,
                 goroutines, chClosed, ret, runs, blAtStart, sleeps,
                 lastWritten, startIdx, prevKill, pure>>

\* case missingSymbol of a worker: AddToBlacklist(db, symbol, ""), whose
\* error (the handle is closed once the call has returned) is dropped
Go_Blacklist(s) ==
  /\ mode = "RunGo" /\ wstate[s] = "blacklisting"
  /\ blacklist' = IF DbOpen THEN AddToBlacklist(blacklist, s) ELSE blacklist
  /\ wstate' = [wstate EXCEPT ![s] = "done"]
  /\ UNCHANGED <<indexFile, prices, mode, pc, params, i, processed, filtered,
                 goroutines, returnCh, chClosed, ret, runs, fetched, blAtStart,
                 pacing, lastWritten, startIdx, prevKill, seen, missed, failed, pure>>

\* status jsonBroken in a worker: err.Error() on the nil err panics
Go_WorkerPanic(s) ==
  /\ mode = "RunGo" /\ wstate[s] = "spawned"
  /\ fetched' = fetched \cup {s}
  /\ sinceSleep' = sinceSleep + 1
  /\ wstate' = NoWorkers
  /\ pc' = "returned"
  /\ ret' = IF pc = "returned" THEN ret ELSE "panic"
  /\ seen' = seen \cup Noted("broken")
  /\ UNCHANGED <<persistent, mode, params, i, processed, filtered, goroutines,
                 returnCh, chClosed, runs, blAtStart, sleeps, lastWritten,
                 startIdx, prevKill, missed, failed, pure>>

\* the closer goroutine: wg.Wait(); close(returnCh)
Go_Close ==
  /\ mode = "RunGo" /\ pc \in {"collect", "returned"}
  /\ goroutines # <<>>
  /\ ~chClosed
  /\ \A s \in Range(goroutines) : wstate[s] = "done"
  /\ chClosed' = TRUE
  /\ UNCHANGED <<persistent, mode, pc, params, i, processed, filtered,
                 goroutines, wstate, returnCh, ret, runs, fetched, blAtStart,
                 pacing, lastWritten, startIdx, prevKill, seen, missed, failed, pure>>

\* one iteration of "for value := range returnCh"; st tells whether the
\* StoreData of the iteration returns an error
Go_Receive(st) ==
  /\ mode = "RunGo" /\ pc = "collect"
  /\ returnCh # <<>>
  /\ returnCh' = Tail(returnCh)
  /\ LET value == Head(returnCh) IN
       IF value.limitReached
       THEN /\ st = "ok"
            /\ pc' = "returned" /\ ret' = "limit"
            /\ UNCHANGED <<prices, seen>>
       ELSE /\ pc' = pc /\ ret' = ret
            /\ seen' = seen \cup Noted(st)
            /\ prices' = IF st = "ok"
                         THEN StorePoints(prices, value.symbol, value.curatedData)
                         ELSE prices
  /\ UNCHANGED <<indexFile, blacklist, mode, params, i, processed, filtered,
                 goroutines, wstate, chClosed, runs, fetched, blAtStart, pacing,
                 lastWritten, startIdx, prevKill, missed, failed, pure>>

\* "if len(goroutines) < n { break }"
LastBatch(g, nn) == Len(g) < nn

\* a loop that leaves the batch for the sleep without waiting for the
\* channel to be closed and emptied
Go_BatchEnd_Early ==
  /\ mode = "RunGo" /\ pc = "collect"
  /\ IF LastBatch(goroutines, n)
     THEN /\ pc' = "r1"
          /\ UNCHANGED <<i, pacing>>
     ELSE /\ sleeps' = IF sleep THEN sleeps + 1 ELSE sleeps
          /\ sinceSleep' = IF sleep THEN 0 ELSE sinceSleep
          /\ i' = i + n
          /\ pc' = GoNext(i', filtered)
  /\ UNCHANGED <<persistent, mode, params, processed, filtered, workers, ret,
                 runs, fetched, blAtStart, lastWritten, startIdx, prevKill,
                 seen, missed, failed, pure>>

\* the range loop ended: break, or sleep and go to the next batch
Go_BatchEnd ==
  /\ mode = "RunGo" /\ pc = "collect"
  /\ returnCh = <<>> /\ chClosed
  /\ IF LastBatch(goroutines, n)
     THEN /\ pc' = "r1"
          /\ UNCHANGED <<i, pacing>>
     ELSE /\ sleeps' = IF sleep THEN sleeps + 1 ELSE sleeps
          /\ sinceSleep' = IF sleep THEN 0 ELSE sinceSleep
          /\ i' = i + n
          /\ pc' = GoNext(i', filtered)
  /\ UNCHANGED <<persistent, mode, params, processed, filtered, workers, ret,
                 runs, fetched, blAtStart, lastWritten, startIdx, prevKill, seen, missed, failed, pure>>

(***************************************************************************)
(* End of a process: the call returned and the process exits, or the       *)
(* process is killed at some point of the run.                             *)
(***************************************************************************)
Halt(k) ==
  /\ mode' = "idle" /\ pc' = "idle"
  /\ clear' = FALSE /\ sleep' = FALSE
  /\ i' = 0 /\ processed' = 0 /\ filtered' = <<>> /\ goroutines' = <<>>
  /\ wstate' = NoWorkers /\ returnCh' = <<>> /\ chClosed' = FALSE
  /\ ret' = "none" /\ fetched' = {} /\ blAtStart' = {}
  /\ sleeps' = 0 /\ sinceSleep' = 0 /\ lastWritten' = -1 /\ startIdx' = 0
  /\ prevKill' = k
  /\ seen' = {} /\ missed' = {} /\ failed' = {}
  /\ UNCHANGED <<persistent, n, production, runs, pure>>

Exit ==
  /\ mode # "idle" /\ pc = "returned"
  /\ Halt(NoKill)

Kill ==
  /\ mode # "idle" /\ pc # "returned"
  /\ Halt([m |-> mode, N |-> lastWritten, fetched |-> fetched,
           owed |-> IF mode = "RunGo" /\ lastWritten >= 0
                    THEN {filtered[k] : k \in (lastWritten + 1)..Len(filtered)}
                    ELSE {}])

Next ==
  \/ \E cl \in BOOLEAN : Run_Start(cl)
  \/ Run_Skip
  \/ \E o \in Outcomes : Run_Process(o)
  \/ Index_Create
  \/ Index_CreateFail
  \/ Index_WriteString
  \/ Index_WriteFail
  \/ \E cl \in BOOLEAN, sl \in BOOLEAN : Go_Start(cl, sl)
  \/ Go_Spawn
  \/ \E s \in Symbols, o \in Outcomes : Go_Worker(s, o)
  \/ \E s \in Symbols : Go_Blacklist(s)
  \/ \E s \in Symbols : Go_WorkerPanic(s)
  \/ Go_Close
  \/ \E st \in {"ok", "sterr"} : Go_Receive(st)
  \/ Go_BatchEnd
  \/ Exit
  \/ Kill

\* the life of the deployment: a first process on a fresh installation and
\* its restarts
Spec == Init /\ [][Next]_vars

\* what the checkpoint file can hold when a process starts: absent, cut
\* short by a kill inside writeIndexToFile, or a written index
IndexFiles ==
  {NoFile, [exists |-> TRUE, data |-> <<>>]}
    \cup {[exists |-> TRUE, data |-> Itoa(k)] : k \in 0..NumSymbols}

\* one process, started on whatever earlier processes left behind
InitRun ==
  /\ indexFile \in IndexFiles
  /\ blacklist \in SUBSET Symbols
  /\ prices = {}
  /\ mode = "idle"
  /\ pc = "idle"
  /\ n \in 1..MaxN
  /\ clear = FALSE
  /\ sleep = FALSE
  /\ production \in BOOLEAN
  /\ i = 0
  /\ processed = 0
  /\ filtered = <<>>
  /\ goroutines = <<>>
  /\ wstate = NoWorkers
  /\ returnCh = <<>>
  /\ chClosed = FALSE
  /\ ret = "none"
  /\ runs = MaxRuns - 1
  /\ fetched = {}
  /\ blAtStart = {}
  /\ sleeps = 0
  /\ sinceSleep = 0
  /\ lastWritten = -1
  /\ startIdx = 0
  /\ prevKill = NoKill
  /\ seen = {} /\ missed = {} /\ failed = {}
  /\ input = <<>> /\ output = <<>> /\ table = <<>>

SpecRun == InitRun /\ [][Next]_vars

TypeOK ==
  /\ mode \in {"idle", "Run", "RunGo"}
  /\ pc \in {"idle", "w1", "w2", "body", "collect", "r1", "r2", "returned"}
  /\ blacklist \subseteq Symbols
  /\ prices \subseteq Symbols \X Weeks
  /\ processed \in 0..NumSymbols
  /\ i \in 0..(LenRecords + MaxN)


(***************************************************************************)
(* The specifications of the single functions leave the orchestrator idle. *)
(***************************************************************************)
OrchIdle ==
  /\ indexFile = NoFile /\ blacklist = {} /\ prices = {}
  /\ mode = "idle" /\ pc = "idle"
  /\ n = 1 /\ clear = FALSE /\ sleep = FALSE /\ production = FALSE
  /\ i = 0 /\ processed = 0 /\ filtered = <<>> /\ goroutines = <<>>
  /\ wstate = NoWorkers /\ returnCh = <<>> /\ chClosed = FALSE
  /\ ret = "none" /\ runs = 0 /\ fetched = {} /\ blAtStart = {}
  /\ sleeps = 0 /\ sinceSleep = 0 /\ lastWritten = -1 /\ startIdx = 0
  /\ prevKill = NoKill /\ seen = {} /\ missed = {} /\ failed = {}

(***************************************************************************)
(* ExtractDataFromValues(cdr, n, symbol).                                  *)
(*                                                                         *)
(* A date string "YYYY-MM-DD" is a record [y, m, d]; a time.Time is the    *)
(* number of days since 2023-01-01 (a Sunday).  The model covers the year  *)
(* 2023.                                                                   *)
(***************************************************************************)
\* largest n (number of weeks asked for) of the extraction inputs
MaxWeeks == 3

ModelYear == 2023

MonthDays == <<31, 28, 31, 30, 31, 30, 31, 31, 30, 31, 30, 31>>

RECURSIVE DaysBefore(_)
DaysBefore(m) == IF m <= 1 THEN 0 ELSE DaysBefore(m - 1) + MonthDays[m - 1]

\* time.Parse("2006-01-02", date): an error for a month or day out of range
ParseDate(date) ==
  IF /\ date.y = ModelYear
     /\ date.m \in 1..12
     /\ date.d >= 1 /\ date.d <= MonthDays[date.m]
  THEN [ok |-> TRUE, t |-> DaysBefore(date.m) + date.d - 1]
  ELSE [ok |-> FALSE, t |-> 0]

\* t.Format("2006-01-02")
FormatDate(t) ==
  LET m == CHOOSE k \in 1..12 : DaysBefore(k) <= t /\ t < DaysBefore(k) + MonthDays[k]
  IN [y |-> ModelYear, m |-> m, d |-> t - DaysBefore(m) + 1]

\* t.Weekday(): Sunday = 0
Weekday(t) == t % 7

\* t.AddDate(0, 0, days)
AddDate(t, days) == t + days

\* strings.Cut(lastRaw, " "): the part before the first separator
Cut(lastRaw) ==
  IF \E k \in 1..Len(lastRaw) : lastRaw[k].kind = "space"
  THEN LET k == CHOOSE j \in 1..Len(lastRaw) :
                  /\ lastRaw[j].kind = "space"
                  /\ \A h \in 1..(j - 1) : lastRaw[h].kind # "space"
       IN [ok |-> TRUE, before |-> SubSeq(lastRaw, 1, k - 1)]
  ELSE [ok |-> FALSE, before |-> lastRaw]

\* the date part parses when it is exactly one date string
ParseDatePart(before) ==
  IF Len(before) = 1 /\ before[1].kind = "date" THEN ParseDate(before[1].date)
  ELSE [ok |-> FALSE, t |-> 0]

\* strconv.ParseFloat(value.Close, 64) on a string of decimal digits
ParseFloat(close) ==
  IF close # <<>> /\ \A k \in 1..Len(close) : IsDigit(close[k])
  THEN [ok |-> TRUE, val |-> AtoiVal(close)]
  ELSE [ok |-> FALSE, val |-> 0]

Result(data, found, err) == [data |-> data, found |-> found, err |-> err]

\* a loop that does not count the weeks it misses
RECURSIVE ExtractLoop_NoCount(_, _, _, _, _, _, _)
ExtractLoop_NoCount(series, nn, symbol, k, missing, t, curatedData) ==
  IF k > nn THEN Result(curatedData, nn - missing, FALSE)
  ELSE IF FormatDate(t) \notin DOMAIN series
  THEN ExtractLoop_NoCount(series, nn, symbol, k + 1, missing, t, curatedData)
  ELSE IF ~ParseFloat(series[FormatDate(t)]).ok
  THEN Result(curatedData, nn - missing, TRUE)
  ELSE ExtractLoop_NoCount(series, nn, symbol, k + 1, missing, AddDate(t, -7),
         Append(curatedData,
                [symbol |-> symbol, date |-> FormatDate(t),
                 value |-> ParseFloat(series[FormatDate(t)]).val]))

\* the loop "for i <= n": on a missing date only missing and i advance
RECURSIVE ExtractLoop(_, _, _, _, _, _, _)
ExtractLoop(series, nn, symbol, k, missing, t, curatedData) ==
  IF k > nn THEN Result(curatedData, nn - missing, FALSE)
  ELSE IF FormatDate(t) \notin DOMAIN series
  THEN ExtractLoop(series, nn, symbol, k + 1, missing + 1, t, curatedData)
  ELSE IF ~ParseFloat(series[FormatDate(t)]).ok
  THEN Result(curatedData, nn - missing, TRUE)
  ELSE ExtractLoop(series, nn, symbol, k + 1, missing, AddDate(t, -7),
         Append(curatedData,
                [symbol |-> symbol, date |-> FormatDate(t),
                 value |-> ParseFloat(series[FormatDate(t)]).val]))

\* a start of the walk that forgets to go back to Sunday
LastSunday_NoRoll(t) == t

\* "t = t.AddDate(0, 0, -int(t.Weekday()))"
LastSunday(t) == AddDate(t, -Weekday(t))

ExtractDataFromValues(cdr, nn, symbol) ==
  IF ~Cut(cdr.LastRefreshed).ok THEN Result(<<>>, 0, TRUE)
  ELSE IF ~ParseDatePart(Cut(cdr.LastRefreshed).before).ok
  THEN Result(<<>>, 0, TRUE)
  ELSE ExtractLoop(cdr.TimeSeries, nn, symbol, 1, 0,
                   LastSunday(ParseDatePart(Cut(cdr.LastRefreshed).before).t),
                   <<>>)

(***************************************************************************)
(* Inputs of the extraction.                                               *)
(***************************************************************************)
Date(m, d) == [y |-> ModelYear, m |-> m, d |-> d]

DateTok(date) == [kind |-> "date", date |-> date]
SpaceTok == [kind |-> "space", date |-> Date(1, 1)]
TimeTok == [kind |-> "time", date |-> Date(1, 1)]

\* a Wednesday, a Saturday, a Sunday, and a day that does not exist
RefreshDates == {Date(3, 1), Date(3, 4), Date(3, 5), Date(2, 30)}

\* "2023-03-01 00:00:00", "2023-03-01" and " 2023-03-01"
LastRefreshedOf(date) ==
  {<<DateTok(date), SpaceTok, TimeTok>>, <<DateTok(date)>>,
   <<SpaceTok, DateTok(date)>>}

\* the Sundays the walks can visit, and a Wednesday
SeriesDates ==
  {Date(3, 5), Date(2, 26), Date(2, 19), Date(2, 12), Date(3, 1)}

\* closing prices "7", "12", and one that is no number
CloseStrings == {<<"7">>, <<"1", "2">>, <<"x">>}

AllSeries ==
  UNION {[keys -> CloseStrings] : keys \in SUBSET SeriesDates}

ExtractSymbols == {"BTC"}

ExtractInputs ==
  {[cdr |-> [LastRefreshed |-> lr, TimeSeries |-> ts], n |-> nn, symbol |-> sym] :
     lr \in UNION {LastRefreshedOf(dt) : dt \in RefreshDates},
     ts \in AllSeries, nn \in 1..MaxWeeks, sym \in ExtractSymbols}

NoOutput == Result(<<>>, -1, FALSE)

InitExtract ==
  /\ OrchIdle
  /\ input \in ExtractInputs
  /\ output = NoOutput
  /\ table = <<>>

Extract ==
  /\ output = NoOutput
  /\ output' = ExtractDataFromValues(input.cdr, input.n, input.symbol)
  /\ UNCHANGED <<orch, input, table>>

SpecExtract == InitExtract /\ [][Extract]_vars

(***************************************************************************)
(* Properties of the orchestrators.                                        *)
(***************************************************************************)
\* the restarted process runs the same function as the killed one, which
\* had completely written checkpoint prevKill.N
ResumedRun == mode = "Run" /\ prevKill.m = "Run" /\ prevKill.N >= 0

ResumedGo == mode = "RunGo" /\ prevKill.m = "RunGo" /\ prevKill.N >= 0

\* C1: Sequential resumability.  When Run was killed after it had written
\* checkpoint N and is restarted, the restarted Run begins its loop at row N,
\* and every row from N on that the loop has passed was fetched, unless it is
\* the header or blacklisted.
C1_SequentialResume ==
  ResumedRun =>
    /\ startIdx = prevKill.N
    /\ \A r \in prevKill.N..(i - 1) :
         r = 0 \/ records[r] \in fetched \/ IsBlacklisted(blacklist, records[r])

\* C2: Concurrent resumability.  When RunGoRoutines was killed after the
\* checkpoint write of the batch starting at N and is restarted with
\* clear=false, a restarted run that completes its pass has fetched every
\* symbol of that batch and of the later batches that was not blacklisted at
\* the restart.
C2_ConcurrentResume ==
  (ResumedGo /\ ~clear /\ pc = "returned" /\ ret = "ok") =>
    (prevKill.owed \ blAtStart) \subseteq fetched

C4_RateLimit ==
  (mode = "Run" \/ (mode = "RunGo" /\ sleep)) => sinceSleep <= n

C4_Witness ==
  /\ mode = "RunGo" /\ sleep /\ n > 1
  /\ sleeps >= 1 /\ sinceSleep >= 1

\* C5: Pacing count.  A full pass (started at index 0, returned after the
\* final reset) that processed P symbols with batch size n has slept exactly
\* once per n processed symbols, P div n times, in Run and in RunGoRoutines
\* with sleep=true alike.
C5_PacingCount ==
  (pc = "returned" /\ ret = "ok" /\ startIdx = 0
     /\ (mode = "Run" \/ (mode = "RunGo" /\ sleep)))
  => sleeps = processed \div n


(***************************************************************************)
(* Properties of ExtractDataFromValues.                                    *)
(***************************************************************************)
Extracted == output # NoOutput

\* the last-refreshed field has the form "<date> <time>" with a valid date
DateOK ==
  /\ Cut(input.cdr.LastRefreshed).ok
  /\ ParseDatePart(Cut(input.cdr.LastRefreshed).before).ok

RefreshDay == ParseDatePart(Cut(input.cdr.LastRefreshed).before).t

\* S: the most recent Sunday on or before the last-refreshed date
SundayOnOrBefore == CHOOSE d \in (RefreshDay - 6)..RefreshDay : d % 7 = 0

\* the n dates S, S-7, ..., S-7(n-1)
WeekDate(k) == FormatDate(SundayOnOrBefore - 7 * k)

PresentWeeks ==
  {k \in 0..(input.n - 1) : WeekDate(k) \in DOMAIN input.cdr.TimeSeries}

CompleteSeries == PresentWeeks = 0..(input.n - 1)

\* the decimal number a string of digits denotes, read from the left
RECURSIVE Power10(_)
Power10(e) == IF e = 0 THEN 1 ELSE 10 * Power10(e - 1)

RECURSIVE Numeral(_)
Numeral(close) ==
  IF close = <<>> THEN 0
  ELSE DigitVal(Head(close)) * Power10(Len(close) - 1) + Numeral(Tail(close))

IsNumeral(close) ==
  close # <<>> /\ \A k \in 1..Len(close) : close[k] \in {"0", "1", "2", "3", "4", "5", "6", "7", "8", "9"}

AllValuesParse ==
  \A key \in DOMAIN input.cdr.TimeSeries : IsNumeral(input.cdr.TimeSeries[key])

WeekValuesParse ==
  \A k \in PresentWeeks : IsNumeral(input.cdr.TimeSeries[WeekDate(k)])

\* C7: Gap-tolerant extraction.  The result holds exactly one point for each
\* of the n dates S, S-7, ..., S-7(n-1) that has an entry in the series, and
\* none for the others, also when a week is missing between present ones.
C7_GapTolerant ==
  (Extracted /\ DateOK /\ AllValuesParse) =>
    /\ {output.data[j].date : j \in 1..Len(output.data)}
         = {WeekDate(k) : k \in PresentWeeks}
    /\ Len(output.data) = Cardinality(PresentWeeks)

\* C8: Tolerant extraction.  When the series lacks an entry for one of the n
\* weekly dates, and the dates and values parse, the result has fewer than n
\* points, a found-count below n and no error.
C8_TolerantExtraction ==
  (Extracted /\ DateOK /\ AllValuesParse /\ ~CompleteSeries) =>
    /\ Len(output.data) < input.n
    /\ output.found < input.n
    /\ ~output.err

C8_Witness ==
  /\ Extracted /\ DateOK /\ AllValuesParse /\ ~CompleteSeries
  /\ PresentWeeks # {} /\ Len(output.data) >= 1

\* the points of a complete extraction: symbol, date S-7k, value of the entry
CompletePoints ==
  /\ Len(output.data) = input.n
  /\ output.found = input.n
  /\ ~output.err
  /\ \A k \in 0..(input.n - 1) :
       output.data[k + 1] =
         [symbol |-> input.symbol, date |-> WeekDate(k),
          value |-> Numeral(input.cdr.TimeSeries[WeekDate(k)])]

\* C9 as stated: Complete extraction.  When the series has an entry for each
\* of the n weekly dates, the result is n points, found-count n and no error,
\* the k-th point carrying the symbol, the date S-7k and the entry's value.
C9_CompleteAsStated ==
  (Extracted /\ DateOK /\ CompleteSeries) => CompletePoints

\* C9 amended: the same, when each of these n entries has a parseable value.
C9_CompleteExtraction ==
  (Extracted /\ DateOK /\ CompleteSeries /\ WeekValuesParse) => CompletePoints

C9_Witness ==
  /\ Extracted /\ DateOK /\ CompleteSeries /\ WeekValuesParse
  /\ input.n >= 2
  /\ RefreshDay # SundayOnOrBefore
  /\ output.data[1].value # output.data[2].value


(***************************************************************************)
(* GetRawValuesFromResponse(response).                                     *)
(*                                                                         *)
(* A response is a sequence of pieces of text.  Each marker is two pieces  *)
(* long, so that a response may hold one half of a marker without holding  *)
(* the marker.  The JSON documents of the model are the empty object, an   *)
(* object with one string member "Note", and an object whose "Meta Data"   *)
(* member is a number, which is well-formed JSON but no CryptoDataRaw.     *)
(***************************************************************************)
\* longest response, in pieces
MaxBody == 4

allGood == 0
limitReached == 1
missingDate == 2
missingSymbol == 3
jsonBroken == 4

InvalidMarker == <<"Invalid API ", "call.">>

LimitMarker == <<"You have reached the 100 ", "requests/day limit">>

OpenNote == "{\"Note\":\""

CloseNote == "\"}"

EmptyObject == "{}"

BadMetaData == "{\"Meta Data\":1}"

\* pieces that may stand inside a JSON string
TextPieces ==
  {InvalidMarker[1], InvalidMarker[2], LimitMarker[1], LimitMarker[2]}

Pieces == TextPieces \cup {OpenNote, CloseNote, EmptyObject, BadMetaData}

\* strings.Contains(s, substr)
Contains(s, substr) ==
  \E k \in 0..(Len(s) - Len(substr)) :
    SubSeq(s, k + 1, k + Len(substr)) = substr

\* json.Unmarshal(response, &cryptoData) returns nil
Unmarshal(response) ==
  \/ response = <<EmptyObject>>
  \/ /\ Len(response) >= 2
     /\ response[1] = OpenNote
     /\ response[Len(response)] = CloseNote
     /\ \A k \in 2..(Len(response) - 1) : response[k] \in TextPieces

\* a classifier that tries to decode before it looks for the markers
GetRawValuesFromResponse_DecodeFirst(response) ==
  IF Unmarshal(response) THEN allGood
  ELSE IF Contains(response, InvalidMarker) THEN missingSymbol
  ELSE IF Contains(response, LimitMarker) THEN limitReached
  ELSE jsonBroken

GetRawValuesFromResponse(response) ==
  IF Contains(response, InvalidMarker) THEN missingSymbol
  ELSE IF Contains(response, LimitMarker) THEN limitReached
  ELSE IF ~Unmarshal(response) THEN jsonBroken
  ELSE allGood

RECURSIVE SeqsUpTo(_, _)
SeqsUpTo(S, len) ==
  IF len = 0 THEN {<<>>}
  ELSE LET shorter == SeqsUpTo(S, len - 1)
       IN shorter \cup {Append(q, x) : q \in shorter, x \in S}

Responses == SeqsUpTo(Pieces, MaxBody)

InitClassify ==
  /\ OrchIdle
  /\ input \in Responses
  /\ output = NoOutput
  /\ table = <<>>

Classify ==
  /\ output = NoOutput
  /\ output' = [code |-> GetRawValuesFromResponse(input)]
  /\ UNCHANGED <<orch, input, table>>

SpecClassify == InitClassify /\ [][Classify]_vars

Classified == output # NoOutput

HasInvalidMarker ==
  \E k \in 1..(Len(input) - 1) :
    input[k] = "Invalid API " /\ input[k + 1] = "call."

HasLimitMarker ==
  \E k \in 1..(Len(input) - 1) :
    input[k] = "You have reached the 100 " /\ input[k + 1] = "requests/day limit"

Decodes ==
  \/ input = <<"{}">>
  \/ /\ Len(input) >= 2
     /\ input[1] = "{\"Note\":\"" /\ input[Len(input)] = "\"}"
     /\ \A k \in 2..(Len(input) - 1) : input[k] \notin {"{\"Note\":\"", "\"}", "{}", "{\"Meta Data\":1}"}

\* C10: Classification decision table.  The answer is missingSymbol whenever
\* the bytes hold the invalid-symbol marker; otherwise limitReached whenever
\* they hold the daily-limit marker; otherwise jsonBroken when decoding fails
\* and allGood when it succeeds.  A decodable body holding the limit marker is
\* limitReached; the call changes nothing but its result.
C10_DecisionTable ==
  /\ [](Classified =>
         /\ HasInvalidMarker => output.code = 3
         /\ (~HasInvalidMarker /\ HasLimitMarker) => output.code = 1
         /\ (~HasInvalidMarker /\ ~HasLimitMarker /\ ~Decodes) => output.code = 4
         /\ (~HasInvalidMarker /\ ~HasLimitMarker /\ Decodes) => output.code = 0
         /\ (HasLimitMarker /\ Decodes) => output.code # 0)
  /\ [][UNCHANGED <<orch, input, table>>]_vars

C10_Witness ==
  /\ Classified /\ HasLimitMarker /\ Decodes /\ ~HasInvalidMarker
  /\ output.code = 1

(***************************************************************************)
(* StoreData(db, data, tableName) on crypto_prices.                        *)
(*                                                                         *)
(* The table is the sequence of its committed rows in rowid order.  A call *)
(* takes the points to store and the place where the database fails, if it *)
(* does.                                                                   *)
(***************************************************************************)
\* longest slice of points handed to one call
MaxData == 2

CuratedPoint(symbol, date, value) ==
  [symbol |-> symbol, date |-> date, value |-> value]

\* three (symbol, date) pairs, one of them with two different values
StoredPoints ==
  {CuratedPoint("BTC", 1, 10), CuratedPoint("BTC", 1, 20),
   CuratedPoint("BTC", 2, 10), CuratedPoint("ETH", 1, 10)}

\* UNIQUE(symbol, timestamp): a row with this pair is in the table
Conflicts(rows, curated) ==
  \E k \in 1..Len(rows) :
    rows[k].symbol = curated.symbol /\ rows[k].timestamp = curated.date

NewRow(curated) ==
  [symbol |-> curated.symbol, timestamp |-> curated.date, value |-> curated.value]

\* an insert into a table that has no uniqueness constraint
InsertOrIgnore_NoUnique(rows, curated) == Append(rows, NewRow(curated))

\* "INSERT OR IGNORE INTO crypto_prices(symbol, timestamp, value)"
InsertOrIgnore(rows, curated) ==
  IF Conflicts(rows, curated) THEN rows ELSE Append(rows, NewRow(curated))

\* "for _, curated := range data { stmt.Exec(...) }" without failure
RECURSIVE ExecAll(_, _)
ExecAll(rows, data) ==
  IF data = <<>> THEN rows
  ELSE ExecAll(InsertOrIgnore(rows, Head(data)), Tail(data))

\* where a call fails: nowhere, in db.Begin, in tx.Prepare, in the k-th
\* stmt.Exec, or in tx.Commit
Failures(data) ==
  {[at |-> a, k |-> 0] : a \in {"none", "begin", "prepare", "commit"}}
    \cup {[at |-> "exec", k |-> k] : k \in 1..Len(data)}

NoFailure == [at |-> "none", k |-> 0]

StoreResult(err, panic, txOpen) == [err |-> err, panic |-> panic, txOpen |-> txOpen]

\* a store in which every Exec commits by itself: a failure of the k-th Exec
\* leaves rows 1..k-1 in the table
StoreData_AutoCommit(rows, data, fail) ==
  IF fail.at = "none" THEN [rows |-> ExecAll(rows, data), out |-> StoreResult(FALSE, FALSE, FALSE)]
  ELSE IF fail.at \in {"begin", "prepare"}
  THEN [rows |-> rows, out |-> StoreResult(FALSE, TRUE, fail.at = "prepare")]
  ELSE IF fail.at = "commit"
  THEN [rows |-> rows, out |-> StoreResult(TRUE, FALSE, FALSE)]
  ELSE [rows |-> ExecAll(rows, SubSeq(data, 1, fail.k - 1)),
        out |-> StoreResult(TRUE, FALSE, FALSE)]

\* the rows committed by the call and what it returns; a nil tx or a nil
\* stmt is dereferenced, and a failed Exec returns with the transaction open
StoreData(rows, data, fail) ==
  IF fail.at = "none" THEN [rows |-> ExecAll(rows, data), out |-> StoreResult(FALSE, FALSE, FALSE)]
  ELSE IF fail.at \in {"begin", "prepare"}
  THEN [rows |-> rows, out |-> StoreResult(FALSE, TRUE, fail.at = "prepare")]
  ELSE IF fail.at = "commit"
  THEN [rows |-> rows, out |-> StoreResult(TRUE, FALSE, FALSE)]
  ELSE [rows |-> rows, out |-> StoreResult(TRUE, FALSE, TRUE)]

InitStore ==
  /\ OrchIdle
  /\ input = [data |-> <<>>, fail |-> NoFailure]
  /\ output = NoOutput
  /\ table = <<>>

Store ==
  \E data \in SeqsUpTo(StoredPoints, MaxData) :
    \E fail \in Failures(data) :
      /\ input' = [data |-> data, fail |-> fail]
      /\ table' = StoreData(table, data, fail).rows
      /\ output' = StoreData(table, data, fail).out
      /\ UNCHANGED orch

SpecStore == InitStore /\ [][Store]_vars

OneRowPerPair ==
  \A j, k \in 1..Len(table) :
    (table[j].symbol = table[k].symbol /\ table[j].timestamp = table[k].timestamp)
      => j = k

PairStored(rows, point) ==
  \E k \in 1..Len(rows) : <<rows[k].symbol, rows[k].timestamp>> = <<point.symbol, point.date>>

\* C6: Store idempotence.  After any sequence of StoreData calls there is at
\* most one row per (symbol, timestamp) pair; a call leaves every row it
\* finds as it is, adds rows only for pairs that were not stored, and when
\* every pair it is given is already stored it changes nothing and returns
\* no error.
C6_StoreIdempotence ==
  /\ []OneRowPerPair
  /\ [][input'.fail.at = "none" =>
          /\ Len(table') >= Len(table)
          /\ SubSeq(table', 1, Len(table)) = table
          /\ \A k \in (Len(table) + 1)..Len(table') :
               ~PairStored(table, [symbol |-> table'[k].symbol, date |-> table'[k].timestamp])
          /\ (\A k \in 1..Len(input'.data) : PairStored(table, input'.data[k]))
               => (table' = table /\ ~output'.err /\ ~output'.panic)]_vars

C6_Witness ==
  /\ output # NoOutput
  /\ input.fail.at = "none" /\ ~output.err
  /\ Len(table) >= 2
  /\ \E k \in 1..Len(input.data) : \E j \in 1..Len(table) :
       /\ table[j].symbol = input.data[k].symbol
       /\ table[j].timestamp = input.data[k].date
       /\ table[j].value # input.data[k].value


(***************************************************************************)
(* Properties of the checkpoint.                                           *)
(***************************************************************************)
\* the symbols a step issues a fetch for
NewlyFetched == fetched' \ fetched

FetchIssued == fetched \subseteq fetched' /\ fetched' # fetched

\* the index a restart would read from the file as it is now
Persisted == readIndexFromFile(indexFile)

\* C11: Checkpoint-before-work.  Whenever a fetch is issued for a symbol, the
\* checkpoint in the file already equals the row index of the symbol (Run) or
\* the start index of the batch that holds it (RunGoRoutines).
C11_CheckpointBeforeWork ==
  [][FetchIssued =>
       /\ Persisted.ok /\ Persisted.val = i
       /\ mode = "Run" => NewlyFetched = {records[i]}
       /\ mode = "RunGo" =>
            \A s \in NewlyFetched :
              \E k \in 1..Len(filtered) :
                filtered[k] = s /\ i < k /\ k <= i + n]_vars

C11_Witness ==
  /\ mode = "RunGo" /\ pc = "collect" /\ i > 0
  /\ Range(goroutines) \cap fetched # {}
  /\ Persisted.ok /\ Persisted.val = i

\* C12: Checkpoint monotonicity.  Within one run the checkpoint values
\* written are non-decreasing, but for the single final reset to 0, after
\* which the run writes no more.
C12_CheckpointMonotone ==
  [][(mode # "idle" /\ mode' = mode /\ lastWritten # -1
        /\ lastWritten' # lastWritten) =>
       \/ pc = "w2" /\ lastWritten' >= lastWritten
       \/ pc = "r2" /\ lastWritten' = 0 /\ pc' = "returned"]_vars

C12_Witness ==
  /\ mode = "Run" /\ pc = "returned" /\ ret = "ok"
  /\ startIdx = 0 /\ Cardinality(fetched) >= 2

\* the loop of the run has passed the end of its list
LoopEnded ==
  \/ mode = "Run" /\ i >= LenRecords
  \/ mode = "RunGo" /\ (i >= Len(filtered) \/ LastBatch(goroutines, n))

\* the index of the last write the run completed, or the one it started from
LastCheckpoint == IF lastWritten >= 0 THEN lastWritten ELSE startIdx

\* C13: Checkpoint reset.  A run resets the checkpoint to 0 if and only if it
\* iterated to the end of the list; a run that returns early (at the limit
\* outside production, on a transport error, on a failure of the checkpoint
\* write) leaves the checkpoint at the index or batch start where it stopped;
\* after a failed write that is the index it could not write or the last one
\* it wrote.
C13_CheckpointReset ==
  pc = "returned" =>
    /\ ret = "ok" => (LoopEnded /\ Persisted.ok /\ Persisted.val = 0)
    /\ ret \in {"limit", "conn"} => StartIndex(indexFile) = i
    /\ ret = "werr" => StartIndex(indexFile) \in {i, LastCheckpoint}

\* C14: Bounded rework after a crash.  When Run is killed and restarted, at
\* most one symbol that was fetched before the crash is fetched again by the
\* restarted run.
C14_BoundedRework ==
  (mode = "Run" /\ prevKill.m = "Run") =>
    Cardinality(fetched \cap prevKill.fetched) <= 1

(***************************************************************************)
(* Properties of the ends of a run.                                        *)
(***************************************************************************)
\* the call has returned to its caller (a panic ends the process instead)
Returned == pc = "returned" /\ ret # "panic"

LimitSeen == ~production /\ "limit" \in seen

\* C15: Quota exhaustion outside production is a clean stop.  Once a response
\* classified as limitReached, Run issues no further fetch, RunGoRoutines
\* starts no further batch, and the call returns a nil error.
C15_CleanStop ==
  /\ [][(LimitSeen /\ mode' = mode) =>
          /\ mode = "Run" => ~FetchIssued
          /\ mode = "RunGo" => (goroutines' = goroutines /\ processed' = processed)]_vars
  /\ []((LimitSeen /\ Returned) => ret = "limit")
  /\ []((LimitSeen /\ mode = "Run") => Returned)

C15_Witness ==
  /\ LimitSeen /\ mode = "RunGo" /\ Returned /\ ret = "limit"
  /\ Len(goroutines) >= 2 /\ i + Len(goroutines) < Len(filtered)

\* a result of a successful extraction, as a worker delivers it
Successful(value) == ~value.err /\ ~value.limitReached

\* C16: When a worker reports limitReached outside production, RunGoRoutines
\* returns only after the results of the other workers of the batch that are
\* in the channel have been taken out and stored: no successfully extracted
\* result delivered before the return is dropped.
C16_DrainBeforeReturn ==
  [][(mode = "RunGo" /\ pc = "collect" /\ pc' = "returned" /\ ret' = "limit") =>
       \A k \in 1..Len(returnCh') : ~Successful(returnCh'[k])]_vars

\* C17: Transport failure in sequential mode.  When the fetch for a symbol
\* returns an error, Run issues no further fetch and no store write, and
\* returns that error together with the processed count.
C17_TransportAbortsRun ==
  /\ [][(mode = "Run" /\ mode' = mode /\ "conn" \in seen') =>
          /\ prices' = prices
          /\ "conn" \in seen => (fetched' = fetched /\ processed' = processed)
          /\ pc' = "returned" /\ ret' = "conn"]_vars
  /\ []((mode = "Run" /\ "conn" \in seen) =>
          (Returned /\ ret = "conn" /\ processed = Cardinality(fetched)))

C17_Witness ==
  /\ mode = "Run" /\ "conn" \in seen /\ Returned
  /\ processed >= 2 /\ i < LenRecords - 1

\* the run starts no further unit of work: no fetch in Run, no batch in
\* RunGoRoutines
NoFurtherWork ==
  /\ mode = "Run" => ~FetchIssued
  /\ mode = "RunGo" => (goroutines' = goroutines /\ processed' = processed)

\* the call has returned a non-nil error
ReturnedError == Returned /\ ret \in {"conn", "werr", "rerr"}

\* C18: Transport failure in concurrent mode.  When the fetch of a worker
\* returns an error, RunGoRoutines starts no further batch and returns a
\* non-nil error to the caller, as Run does.
C18_TransportAbortsGo ==
  /\ [][(mode = "RunGo" /\ mode' = mode /\ "conn" \in seen) => NoFurtherWork]_vars
  /\ []((mode = "RunGo" /\ "conn" \in seen /\ Returned) => ReturnedError)

\* C19: Storage failure.  When the store write for a symbol returns an error,
\* the run (Run and RunGoRoutines) is aborted and the error is returned to the
\* caller.
C19_StorageAborts ==
  /\ [][(mode # "idle" /\ mode' = mode /\ "sterr" \in seen) => NoFurtherWork]_vars
  /\ []((mode # "idle" /\ "sterr" \in seen /\ Returned) => ReturnedError)

\* C20: Malformed payload is recovered locally.  When a fetched response
\* classifies as jsonBroken, Run and RunGoRoutines store nothing for the
\* symbol and go on with the remaining symbols: the run does not end there,
\* by a return or by a crash.
C20_MalformedRecovered ==
  /\ []("broken" \in seen => ret # "panic")
  /\ [][(mode # "idle" /\ "broken" \notin seen /\ "broken" \in seen') =>
          (prices' = prices /\ pc' # "returned")]_vars

(***************************************************************************)
(* Per-symbol outcomes.                                                    *)
(***************************************************************************)
\* no worker goroutine is between its classification and its AddToBlacklist
NoBlacklisting == \A s \in Symbols : wstate[s] # "blacklisting"

PricedSymbols == {p[1] : p \in prices}

\* C21: Invalid symbol handling.  When a response classified as missingSymbol
\* for symbol s, then in both modes s is in the blacklist by the time the run
\* has ended and no price row is stored for s.
C21_InvalidSymbol ==
  (Returned /\ NoBlacklisting) =>
     /\ missed \subseteq blacklist
     /\ missed \cap PricedSymbols = {}

\* C22: Extraction failure is fatal for that symbol's cycle only.  When the
\* extraction returned an error for a symbol, no price point of that symbol is
\* stored in that cycle, not even the points extracted before the failure, in
\* Run and in RunGoRoutines.
C22_ExtractionFailure == failed \cap PricedSymbols = {}

\* none of the fatal conditions occurred: no transport failure, no failed
\* checkpoint write (the list and the store are always readable here)
NoFatalCondition == "conn" \notin seen /\ ret \notin {"werr", "rerr"}

\* C23: Run and RunGoRoutines return a non-nil error only for the fatal
\* conditions: in every run where none of them occurs, whatever the per-symbol
\* classifications and extraction outcomes, a call that has come to its end
\* has returned normally with a nil error.
C23_OnlyFatalErrors ==
  (pc = "returned" /\ NoFatalCondition) => ret \in {"ok", "limit"}

\* the symbols handed to the fetch step in this run: those whose fetch was
\* issued and those whose worker goroutine is started and about to fetch
Handed == fetched \cup {s \in Symbols : wstate[s] = "spawned"}

C25_QuotaRetry ==
  [][(mode = "Run" /\ production /\ "limit" \notin seen /\ "limit" \in seen')
       => (i' = i /\ pc' \notin {"returned", "r1"})]_vars

(***************************************************************************)
(* Transactions of StoreData.                                              *)
(***************************************************************************)
\* the call of this step returned (it did not panic)
StoreReturns == output' # NoOutput /\ ~output'.panic

\* C26: StoreData is all-or-nothing.  After StoreData returns, either every
\* row of the batch is committed (its pair is in the table) and the result is
\* nil, or no row of the batch is committed (the table is as it was) and the
\* result is an error; a failure on the k-th row never leaves rows 1..k-1
\* committed.
C26_AllOrNothing ==
  [][StoreReturns =>
       \/ /\ ~output'.err
          /\ \A k \in 1..Len(input'.data) : PairStored(table', input'.data[k])
       \/ /\ output'.err
          /\ table' = table]_vars

C26_Witness ==
  /\ output # NoOutput /\ output.err
  /\ input.fail.at = "exec" /\ input.fail.k = 2
  /\ ~PairStored(table, input.data[1])
  /\ Len(table) >= 1

\* C27: StoreData rolls back on failure.  When a row insert fails the
\* transaction is rolled back before StoreData returns the error: no
\* transaction is left open on the store after any StoreData call returns.
C27_RollbackOnFailure ==
  (output # NoOutput /\ ~output.panic) => ~output.txOpen

(***************************************************************************)
(* Checkpoint file absent or unwritable.                                   *)
(***************************************************************************)
\* the step is the start of Run or RunGoRoutines
Starts == mode = "idle" /\ mode' # "idle"

\* C28: Absent checkpoint.  When the checkpoint file does not exist, Run and
\* RunGoRoutines start at index 0 and do not return an error because of the
\* absence: the call goes on to its first checkpoint write (or, with nothing
\* to process, to the final reset).
C28_AbsentCheckpoint ==
  [][(Starts /\ ~indexFile.exists) =>
       /\ startIdx' = 0 /\ i' = 0
       /\ ret' = "none" /\ pc' \in {"w1", "r1"}]_vars

C28_Witness ==
  /\ mode = "RunGo" /\ pc = "w1" /\ lastWritten = -1
  /\ ~indexFile.exists /\ startIdx = 0
  /\ blacklist # {}

\* the symbols of the unit of work at index i: the row i of Run, the batch
\* filtered[i:end] of RunGoRoutines
UnitOfWork ==
  IF mode = "Run" THEN {records[i]} \cap Symbols
  ELSE Range(SubSeq(filtered, i + 1, BatchEnd(i, n, filtered)))

\* C29: Unwritable checkpoint.  If the checkpoint write for index i (Run) or
\* for a batch start (RunGoRoutines) fails, the run returns that error
\* immediately and issues no fetch for that index or batch, nor any later one.
C29_UnwritableCheckpoint ==
  /\ [](ret = "werr" => (pc = "returned" /\ UnitOfWork \cap Handed = {}))
  /\ [][(ret = "werr" /\ mode' = mode) =>
          (fetched' = fetched /\ processed' = processed /\ ret' = ret)]_vars

C29_Witness ==
  /\ mode = "RunGo" /\ ret = "werr" /\ pc = "returned"
  /\ i >= 1 /\ fetched # {} /\ UnitOfWork # {}

(***************************************************************************)
(* A full pass of Run followed by a full pass of RunGoRoutines on the same *)
(* symbol list, the same blacklist, the same checkpoint and the same       *)
(* response for each symbol.  input holds what both passes start from,     *)
(* output what the pass of Run ended with.                                 *)
(***************************************************************************)
\* the responses of a pass: no limitReached, no transport failure, and a
\* body that decodes or holds the invalid-call marker
PassOutcomes == {"missing", "ok", "exerr"}

\* what a pass ends with: the price rows, the blacklist, what the checkpoint
\* file reads as, and the returned count
PassResult(pr, bl, file, count) ==
  [prices |-> pr, blacklist |-> bl, index |-> readIndexFromFile(file),
   processed |-> count]

InitModes ==
  /\ input \in [resp : [Symbols -> PassOutcomes],
                blacklist : SUBSET Symbols,
                file : {NoFile, [exists |-> TRUE, data |-> Itoa(0)]}]
  /\ output = NoOutput
  /\ table = <<>>
  /\ indexFile = input.file
  /\ blacklist = input.blacklist
  /\ prices = {}
  /\ mode = "idle" /\ pc = "idle"
  /\ n \in 1..MaxN
  /\ clear = FALSE /\ sleep = FALSE /\ production = FALSE
  /\ i = 0 /\ processed = 0 /\ filtered = <<>> /\ goroutines = <<>>
  /\ wstate = NoWorkers /\ returnCh = <<>> /\ chClosed = FALSE
  /\ ret = "none" /\ runs = MaxRuns - 2 /\ fetched = {} /\ blAtStart = {}
  /\ sleeps = 0 /\ sinceSleep = 0 /\ lastWritten = -1 /\ startIdx = 0
  /\ prevKill = NoKill /\ seen = {} /\ missed = {} /\ failed = {}

\* the first pass: Run(c, n, false)
Modes_Run == output = NoOutput /\ Run_Start(FALSE)

\* the fetch of row i comes back with the response of its symbol
Modes_Run_Process == i \in Symbols /\ Run_Process(input.resp[records[i]])

\* the pass of Run has returned nil: its result is kept, and the store and
\* the checkpoint are put back to what the pass started from
Modes_Between ==
  /\ mode = "Run" /\ pc = "returned" /\ ret = "ok"
  /\ output = NoOutput
  /\ output' = PassResult(prices, blacklist, indexFile, processed)
  /\ indexFile' = input.file
  /\ blacklist' = input.blacklist
  /\ prices' = {}
  /\ mode' = "idle" /\ pc' = "idle"
  /\ i' = 0 /\ processed' = 0 /\ filtered' = <<>> /\ goroutines' = <<>>
  /\ wstate' = NoWorkers /\ returnCh' = <<>> /\ chClosed' = FALSE
  /\ ret' = "none" /\ fetched' = {} /\ blAtStart' = {}
  /\ sleeps' = 0 /\ sinceSleep' = 0 /\ lastWritten' = -1 /\ startIdx' = 0
  /\ seen' = {} /\ missed' = {} /\ failed' = {}
  /\ UNCHANGED <<params, runs, prevKill, input, table>>

\* the second pass: RunGoRoutines(c, n, false, sleep)
Modes_Go == output # NoOutput /\ \E sl \in BOOLEAN : Go_Start(FALSE, sl)

\* the fetch of a worker comes back with the response of its symbol
Modes_Go_Worker == \E s \in Symbols : Go_Worker(s, input.resp[s])

NextModes ==
  \/ Modes_Run
  \/ Run_Skip
  \/ Modes_Run_Process
  \/ Index_Create
  \/ Index_WriteString
  \/ Modes_Between
  \/ Modes_Go
  \/ Go_Spawn
  \/ Modes_Go_Worker
  \/ \E s \in Symbols : Go_Blacklist(s)
  \/ Go_Close
  \/ Go_Receive("ok")
  \/ Go_BatchEnd

SpecModes == InitModes /\ [][NextModes]_vars

\* both passes have come to their end
BothPassed ==
  /\ output # NoOutput
  /\ mode = "RunGo" /\ pc = "returned" /\ ret = "ok"

\* C30: Mode equivalence.  Started from checkpoint 0 with the same symbol
\* list, the same blacklist and the same per-symbol responses (no
\* limitReached, no transport failure), a full pass of Run and a full pass of
\* RunGoRoutines end with the same set of price records, the same blacklist,
\* checkpoint 0 and the same returned processed count.
C30_ModeEquivalence ==
  BothPassed =>
    /\ output = PassResult(prices, blacklist, indexFile, processed)
    /\ output.index = [ok |-> TRUE, val |-> 0]

(***************************************************************************)
(* Workers, fan-in loop and store in RunGoRoutines.                        *)
(***************************************************************************)
\* the workers of the current batch that have not finished
InFlight == {s \in Symbols : wstate[s] \in {"spawned", "blacklisting"}}

\* C31: Fan-in barrier before persistence.  In RunGoRoutines no price-store
\* write for a batch is issued until every worker of that batch has finished:
\* no StoreData call overlaps with a still-running worker of the same batch.
C31_FanInBarrier ==
  [][(mode = "RunGo" /\ prices' # prices) => InFlight = {}]_vars

\* C32: Workers never touch the store.  In RunGoRoutines no worker task
\* performs a store operation; every store access is made by the single
\* control flow of the orchestrator, which after the start of the call only
\* writes price rows: the blacklist is not written while the call runs.
C32_WorkersOffStore ==
  [][(mode = "RunGo" /\ mode' = "RunGo") => blacklist' = blacklist]_vars

\* the step holds the pacing sleep of RunGoRoutines
PacingSleep == mode = "RunGo" /\ sleeps' = sleeps + 1

\* C33: Pacing is a batch-level barrier.  In RunGoRoutines the pacing sleep
\* after a batch begins only after every worker of that batch has finished
\* and every result it delivered has been taken from the channel and handed
\* to the store, and no worker of the next batch starts before the sleep ends.
C33_PacingBarrier ==
  [][PacingSleep =>
       /\ InFlight = {} /\ Range(goroutines) \subseteq fetched
       /\ chClosed /\ returnCh = <<>>
       /\ wstate' = wstate /\ processed' = processed
       /\ pc' \in {"w1", "r1"}]_vars

C33_Witness ==
  /\ mode = "RunGo" /\ sleep /\ sleeps = 1 /\ pc = "w1"
  /\ n = 2 /\ Cardinality(fetched) = 2 /\ prices # {}

\* C34: Bounded fan-out.  In every reachable state of RunGoRoutines the number
\* of worker tasks in flight is at most the batch size n, whatever the length
\* of the symbol list.
C34_BoundedFanOut == mode = "RunGo" => Cardinality(InFlight) <= n

C34_Witness ==
  /\ mode = "RunGo" /\ Cardinality(InFlight) = n
  /\ n >= 2 /\ Len(filtered) > n /\ i > 0

(***************************************************************************)
(* What the checkpoint stands for.                                         *)
(***************************************************************************)
\* the rows from row k on that are neither the header nor blacklisted
RowsFrom(k, bl) == {s \in Symbols \ bl : s >= k}

\* the symbol of the next unprocessed row when the checkpoint is k
NextSymbol(k, bl) ==
  IF RowsFrom(k, bl) = {} THEN 0
  ELSE CHOOSE s \in RowsFrom(k, bl) : \A t \in RowsFrom(k, bl) : s <= t

\* RunGoRoutines has started the first batch after the checkpoint write
BatchStarted == mode = "RunGo" /\ pc = "collect" /\ lastWritten = i

\* C35: Checkpoint meaning.  In both orchestrators the persisted checkpoint k
\* denotes row k of the symbol list as read from the source (header at row 0)
\* and is the index of the next unprocessed row: the work that follows the
\* write of k starts with the symbol of the first row from k on that is to be
\* processed, and a checkpoint written by Run and resumed by RunGoRoutines
\* resumes at that symbol.
C35_CheckpointMeaning ==
  /\ (mode = "Run" /\ pc = "body") => lastWritten = i
  /\ BatchStarted => goroutines[1] = NextSymbol(lastWritten, blAtStart)
  /\ (BatchStarted /\ prevKill.m = "Run" /\ prevKill.N = startIdx /\ i = startIdx)
       => goroutines[1] = NextSymbol(prevKill.N, blAtStart)

(***************************************************************************)
(* The count returned by ExtractDataFromValues.                            *)
(***************************************************************************)
\* C36: Found-count consistency.  On every return of ExtractDataFromValues,
\* with or without an error, the returned count equals the number of the n
\* requested weeks actually found, i.e. the number of points returned, and
\* is between 0 and n.
C36_FoundCount ==
  Extracted =>
    /\ output.found = Len(output.data)
    /\ output.found \in 0..input.n

(***************************************************************************)
(* writeIndexToFile(i, path) followed by readIndexFromFile(path), as whole *)
(* calls without failure.  input is the index written last, table the one  *)
(* written before it, output what the read after the write returned.       *)
(***************************************************************************)
\* largest index written
MaxIndex == 120

\* a write on a file opened without truncation: the bytes of the old content
\* beyond the new numeral stay
writeIndexToFile_NoTruncate(file, k) ==
  [exists |-> TRUE,
   data |-> Itoa(k) \o SubSeq(file.data, Len(Itoa(k)) + 1, Len(file.data))]

\* os.Create (the file is created or truncated), then
\* file.WriteString(strconv.Itoa(i))
writeIndexToFile(file, k) == [exists |-> TRUE, data |-> Itoa(k)]

InitIndex ==
  /\ OrchIdle
  /\ input = -1
  /\ output = readIndexFromFile(indexFile)
  /\ table = <<>>

WriteIndex ==
  \E k \in 0..MaxIndex :
    /\ indexFile' = writeIndexToFile(indexFile, k)
    /\ input' = k
    /\ table' = IF input >= 0 THEN <<input>> ELSE <<>>
    /\ output' = readIndexFromFile(indexFile')
    /\ UNCHANGED <<blacklist, prices, mode, pc, params, i, processed, filtered,
                   workers, ret, runs, fetched, blAtStart, pacing, lastWritten,
                   startIdx, prevKill, seen, missed, failed>>

SpecIndex == InitIndex /\ [][WriteIndex]_vars

\* C37: Checkpoint round trip.  For every non-negative integer i,
\* writeIndexToFile(i) followed by readIndexFromFile returns i with no error,
\* and a later write fully replaces the earlier value: the value read is
\* always the last one written.
C37_RoundTrip ==
  input >= 0 =>
    /\ output = [ok |-> TRUE, val |-> input]
    /\ readIndexFromFile(indexFile) = output

C37_Witness ==
  /\ table = <<MaxIndex>> /\ input = 7
  /\ output = [ok |-> TRUE, val |-> 7]

(***************************************************************************)
(* A process that is not killed, under the scheduling of the Go runtime:   *)
(* a goroutine that can take a step (main, a worker, the closer)           *)
(* eventually takes one.                                                   *)
(***************************************************************************)
NextLive ==
  \/ \E cl \in BOOLEAN : Run_Start(cl)
  \/ Run_Skip
  \/ \E o \in Outcomes : Run_Process(o)
  \/ Index_Create
  \/ Index_CreateFail
  \/ Index_WriteString
  \/ Index_WriteFail
  \/ \E cl \in BOOLEAN, sl \in BOOLEAN : Go_Start(cl, sl)
  \/ Go_Spawn
  \/ \E s \in Symbols, o \in Outcomes : Go_Worker(s, o)
  \/ \E s \in Symbols : Go_Blacklist(s)
  \/ \E s \in Symbols : Go_WorkerPanic(s)
  \/ Go_Close
  \/ \E st \in {"ok", "sterr"} : Go_Receive(st)
  \/ Go_BatchEnd
  \/ Exit

\* one process outside production, started without a checkpoint or from
\* checkpoint 1, with at most one symbol blacklisted
InitLive ==
  /\ InitRun
  /\ ~production
  /\ indexFile \in {NoFile, [exists |-> TRUE, data |-> Itoa(1)]}
  /\ Cardinality(blacklist) <= 1

SpecLive == InitLive /\ [][NextLive]_vars /\ WF_vars(NextLive)

\* "make(chan returnData, len(goroutines))"
Capacity == Len(goroutines)

\* every worker of the batch has run its deferred wg.Done()
AllDone == \A s \in Range(goroutines) : wstate[s] = "done"

\* C38: Fan-in always terminates.  For every batch of RunGoRoutines outside
\* production and every combination of worker outcomes, each worker sends at
\* most one result, no worker blocks on sending (the channel never holds
\* more than its capacity), the channel is closed once, after all workers of
\* the batch have finished, and the collection loop ends.
C38_FanInTerminates ==
  /\ [](mode = "RunGo" =>
          /\ Len(returnCh) <= Capacity
          /\ \A j, k \in 1..Len(returnCh) :
               returnCh[j].symbol = returnCh[k].symbol => j = k
          /\ chClosed => AllDone)
  /\ [][(mode = "RunGo" /\ chClosed /\ goroutines' = goroutines /\ mode' = mode)
          => chClosed']_vars
  /\ ((mode = "RunGo" /\ ~production /\ pc = "collect") ~> (pc # "collect"))

C38_Witness ==
  /\ mode = "RunGo" /\ ~production /\ n = 2
  /\ pc = "w1" /\ i = 2 /\ chClosed /\ returnCh = <<>>
  /\ missed # {} /\ failed # {}

\* the step is the AddToBlacklist call of a worker
WorkerStoreCall ==
  \E s \in Symbols : wstate[s] = "blacklisting" /\ wstate'[s] = "done"

\* C39: No store access after return.  Once RunGoRoutines has returned and
\* its deferred close of the store has run, no worker still in flight
\* performs a store operation: after an early return on limitReached no
\* worker calls AddToBlacklist any more.
C39_NoAccessAfterReturn ==
  [][(mode = "RunGo" /\ pc = "returned") => ~WorkerStoreCall]_vars

\* the workers started by this step
Spawned == {s \in Symbols : wstate[s] # "spawned" /\ wstate'[s] = "spawned"}

\* C40: At most one fetch per row per run.  Within a single invocation of Run
\* or RunGoRoutines no row of the symbol list is fetched more than once, so a
\* run over a list of L rows issues at most L-1 fetches and, outside
\* production with every fetch returning, always terminates.
C40_OneFetchPerRow ==
  /\ [][/\ (mode = "Run" /\ processed' = processed + 1) =>
             (records[i] \notin fetched /\ fetched' = fetched \cup {records[i]})
        /\ (mode = "RunGo" /\ mode' = mode) => Spawned \cap Handed = {}]_vars
  /\ [](processed <= LenRecords - 1)
  /\ ((mode # "idle" /\ ~production) ~> (pc = "returned"))

C40_Witness ==
  /\ mode = "Run" /\ ~production /\ pc = "returned" /\ ret = "ok"
  /\ processed = LenRecords - 1 /\ startIdx = 0

====
